---- MODULE Spec2Model ----
(***************************************************************************)
(* Model of generate_recipes_json.py: one run of generate_recipe_json()    *)
(* reads the sheet 'Nutrient Data' of a workbook, keeps and renames eight  *)
(* columns, fills NaN with 0, rounds seven columns to one decimal, turns   *)
(* the frame into a list of dicts and dumps it as JSON to the destination. *)
(*                                                                         *)
(* Numbers are fixed point, in fortieths (Unit = 40): a source value k/8   *)
(* is the integer 5*k, a value n/10 is the integer 4*n.  Source values are *)
(* eighths, which binary64 holds exactly, so that x*10 is exact and the    *)
(* rint of numpy's round sees true ties (0.25, 0.75, ...).                 *)
(***************************************************************************)
EXTENDS Integers, Sequences, FiniteSets, TLC

(* ------------------------------ bounds -------------------------------- *)
MaxRows == 2        \* rows of the source sheet: 0..MaxRows
MaxEighths == 6     \* numeric source values: 0/8 .. MaxEighths/8
MaxShift == 2       \* sample rows per food name: 0..MaxShift
MaxRuns == 2        \* invocations of the script on the same source

(* ------------------------------ values -------------------------------- *)
Unit == 8 * 5               \* one is Unit fortieths
Eighth == Unit \div 8
Tenth == Unit \div 10

\* A cell of a frame / a value of a dict: NaN, a number, text, or a datetime
Null == [k |-> "null", v |-> 0, s |-> ""]
Num(x) == [k |-> "num", v |-> x, s |-> ""]
Text(t) == [k |-> "text", v |-> 0, s |-> t]
Date == [k |-> "date", v |-> 0, s |-> ""]

\* line 12-21: relevant_cols, source column -> output key
SrcCols == {"food_name", "energy_kcal", "protein_g", "fat_g", "carb_g",
            "sodium_mg", "potassium_mg", "phosphorus_mg"}
relevant_cols ==
    [c \in SrcCols |->
        CASE c = "food_name" -> "name"
          [] c = "energy_kcal" -> "calories"
          [] c = "protein_g" -> "proteinG"
          [] c = "fat_g" -> "fatG"
          [] c = "carb_g" -> "carbG"
          [] c = "sodium_mg" -> "sodiumMg"
          [] c = "potassium_mg" -> "potassiumMg"
          [] c = "phosphorus_mg" -> "phosphorusMg"]

\* line 30
num_cols == {"calories", "proteinG", "fatG", "carbG", "sodiumMg",
             "potassiumMg", "phosphorusMg"}

OutCols == {relevant_cols[c] : c \in SrcCols}

(* --------------------------- frame operators -------------------------- *)
EmptyFrame == [cols |-> {}, rows |-> <<>>]

\* df[list(keys)]: the frame restricted to the columns keys
Select(df, keys) ==
    [cols |-> keys,
     rows |-> [i \in 1..Len(df.rows) |-> [c \in keys |-> df.rows[i][c]]]]

\* .rename(columns=mapping)
Rename(df, mapping) ==
    [cols |-> {mapping[c] : c \in df.cols},
     rows |-> [i \in 1..Len(df.rows) |->
                 [o \in {mapping[c] : c \in df.cols} |->
                     df.rows[i][CHOOSE c \in df.cols : mapping[c] = o]]]]

\* .fillna(value): every NaN cell of every column becomes value
FillNaKeep(df, value) == df
FillNaDrop(df, value) ==
    [cols |-> df.cols,
     rows |-> SelectSeq(df.rows, LAMBDA r : \A c \in df.cols : r[c] # Null)]
FillNa(df, value) ==
    [cols |-> df.cols,
     rows |-> [i \in 1..Len(df.rows) |->
                 [c \in df.cols |->
                     IF df.rows[i][c] = Null THEN value ELSE df.rows[i][c]]]]

\* numpy rint: nearest integer of x/d, ties to the even integer
Rint(x, d) ==
    LET q == x \div d
        r == x % d
    IN  IF 2 * r < d THEN q
        ELSE IF 2 * r > d THEN q + 1
        ELSE IF q % 2 = 0 THEN q ELSE q + 1

\* numpy round(x, 1): rint(x * 10) / 10, on a value in fortieths
Round1HalfUp(x) == ((x + 2) \div Tenth) * Tenth
Round1(x) == Rint(x * 10, Unit) * Tenth

\* recipes_df[cols].round(1): numeric cells of the columns cols are rounded
RoundCols(df, cols) ==
    [cols |-> df.cols,
     rows |-> [i \in 1..Len(df.rows) |->
                 [c \in df.cols |->
                     IF c \in cols /\ df.rows[i][c].k = "num"
                     THEN Num(Round1(df.rows[i][c].v))
                     ELSE df.rows[i][c]]]]

\* .to_dict(orient='records'): one dict per row, in row order
ToDictRecords(df) == df.rows

(* ------------------------------- JSON --------------------------------- *)
\* json.dump encodes str and float (NaN as the token NaN); any other object,
\* such as a Timestamp, raises TypeError
Serializable(cell) == cell.k \in {"text", "num", "null"}
JsonValue(cell) ==
    IF cell.k = "text" THEN [j |-> "string", v |-> 0, s |-> cell.s]
    ELSE IF cell.k = "null" THEN [j |-> "NaN", v |-> 0, s |-> ""]
    ELSE [j |-> "number", v |-> cell.v, s |-> ""]
JsonObject(rec) == [o \in DOMAIN rec |-> JsonValue(rec[o])]
RecSerializable(rec) == \A o \in DOMAIN rec : Serializable(rec[o])

(* --------------------------- exceptions ------------------------------- *)
ExceptionClasses == {"FileNotFoundError", "PermissionError", "OSError",
                     "ValueError", "KeyError", "TypeError", "MemoryError"}
\* line 41: except Exception
CatchesOSErrorOnly(e) == e \in {"FileNotFoundError", "PermissionError", "OSError"}
Catches(e) == e \in ExceptionClasses

(* ------------------------------ inputs -------------------------------- *)
\* numeric sample cells: NaN and the eighths 0/8 .. MaxEighths/8
NCells == MaxEighths + 2
CellAt(n) == IF n = 0 THEN Null ELSE Num((n - 1) * Eighth)
NumSrcCols == <<"energy_kcal", "protein_g", "fat_g", "carb_g",
                "sodium_mg", "potassium_mg", "phosphorus_mg">>
ColIndex(c) == CHOOSE j \in 1..Len(NumSrcCols) : NumSrcCols[j] = c

NameCells == {Text("Rice"), Text("Dal"), Null, Date}

SampleRow(nm, sh) ==
    [c \in SrcCols |->
        IF c = "food_name" THEN nm
        ELSE CellAt((ColIndex(c) - 1 + 3 * sh) % NCells)]
SampleRows == {SampleRow(nm, sh) : nm \in NameCells, sh \in 0..MaxShift}

SeqsUpTo(S, n) == UNION {[1..m -> S] : m \in 0..n}

\* a workbook: missing, without the sheet 'Nutrient Data', or with the sheet
ColSets == {SrcCols} \cup {SrcCols \ {c} : c \in SrcCols}
Sheet(cols, rows) ==
    [file |-> "ok", sheet |-> TRUE, cols |-> cols,
     rows |-> [i \in 1..Len(rows) |-> [c \in cols |-> rows[i][c]]]]
Sources ==
    {[file |-> "missing", sheet |-> FALSE, cols |-> {}, rows |-> <<>>],
     [file |-> "ok", sheet |-> FALSE, cols |-> {}, rows |-> <<>>]}
    \cup {Sheet(SrcCols, rows) : rows \in SeqsUpTo(SampleRows, MaxRows)}
    \cup {Sheet(cs, rows) : cs \in ColSets \ {SrcCols},
                            rows \in SeqsUpTo({SampleRow(Text("Rice"), 0)}, 1)}

\* the destination path: directory missing, no file, or a previous file
StaleObject == [o \in OutCols |->
                  IF o = "name" THEN [j |-> "string", v |-> 0, s |-> "Stale"]
                  ELSE [j |-> "number", v |-> 0, s |-> ""]]
StaleLen == MaxRows + 1
NoDir == [dir |-> FALSE, exists |-> FALSE, writable |-> FALSE,
          recs |-> <<>>, closed |-> FALSE]
Absent == [dir |-> TRUE, exists |-> FALSE, writable |-> TRUE,
           recs |-> <<>>, closed |-> FALSE]
StaleFile == [dir |-> TRUE, exists |-> TRUE, writable |-> TRUE,
              recs |-> [i \in 1..StaleLen |-> StaleObject], closed |-> TRUE]
ReadOnlyFile == [StaleFile EXCEPT !.writable = FALSE]
Dests == {NoDir, Absent, StaleFile, ReadOnlyFile}

(* ------------------------------- state -------------------------------- *)
VARIABLES
    source,         \* the workbook at file_path
    dest,           \* the file at output_path
    dest0,          \* dest when the current run started
    pc,             \* the statement the run is at
    df,             \* line 10
    recipes_df,     \* lines 24-31
    recipes_list,   \* line 34
    f,              \* line 36: the file object, and the list items dumped to it
    exc,            \* the exception in flight, "none" if none
    stdout,         \* the lines printed by the current run
    exit,           \* "running", "0" (normal end) or "traceback"
    run,            \* number of the current run
    prevOk          \* did the previous run print the success line

vars == <<source, dest, dest0, pc, df, recipes_df, recipes_list, f, exc,
          stdout, exit, run, prevOk>>

NoFile == [open |-> FALSE, items |-> 0]
NoException == [cls |-> "none", line |-> 0]
SuccessLine(n) == [kind |-> "success", n |-> n, e |-> "none"]
ErrorLine(e) == [kind |-> "error", n |-> 0, e |-> e]

Init ==
    /\ source \in Sources
    /\ dest \in Dests
    /\ dest0 = dest
    /\ pc = "load"
    /\ df = EmptyFrame
    /\ recipes_df = EmptyFrame
    /\ recipes_list = <<>>
    /\ f = NoFile
    /\ exc = NoException
    /\ stdout = <<>>
    /\ exit = "running"
    /\ run = 1
    /\ prevOk = FALSE

\* an exception of class cls raised by the statement at line: control goes
\* to line 41
Raise(cls, line) ==
    /\ pc' = "except"
    /\ exc' = [cls |-> cls, line |-> line]

(* line 10: df = pd.read_excel(file_path, sheet_name='Nutrient Data') *)
LoadOkOpens ==
    /\ pc = "load"
    /\ source.file = "ok" /\ source.sheet
    /\ df' = [cols |-> source.cols, rows |-> source.rows]
    /\ pc' = "project"
    /\ dest' = IF dest.dir /\ (dest.exists => dest.writable)
               THEN [dest EXCEPT !.exists = TRUE, !.recs = <<>>, !.closed = FALSE]
               ELSE dest
    /\ UNCHANGED <<source, dest0, recipes_df, recipes_list, f, exc,
                   stdout, exit, run, prevOk>>
LoadOk ==
    /\ pc = "load"
    /\ source.file = "ok" /\ source.sheet
    /\ df' = [cols |-> source.cols, rows |-> source.rows]
    /\ pc' = "project"
    /\ UNCHANGED <<source, dest, dest0, recipes_df, recipes_list, f, exc,
                   stdout, exit, run, prevOk>>

LoadFailTruncates ==
    /\ pc = "load"
    /\ \/ /\ source.file = "missing"
          /\ Raise("FileNotFoundError", 10)
       \/ /\ source.file = "ok" /\ ~source.sheet
          /\ Raise("ValueError", 10)
    /\ dest' = IF dest.dir /\ (dest.exists => dest.writable)
               THEN [dest EXCEPT !.exists = TRUE, !.recs = <<>>, !.closed = FALSE]
               ELSE dest
    /\ UNCHANGED <<source, dest0, df, recipes_df, recipes_list, f,
                   stdout, exit, run, prevOk>>
LoadFail ==
    /\ pc = "load"
    /\ \/ /\ source.file = "missing"
          /\ Raise("FileNotFoundError", 10)
       \/ /\ source.file = "ok" /\ ~source.sheet
          /\ Raise("ValueError", 10)
    /\ UNCHANGED <<source, dest, dest0, df, recipes_df, recipes_list, f,
                   stdout, exit, run, prevOk>>

(* line 24: df[list(relevant_cols.keys())].rename(columns=relevant_cols) *)
Project ==
    /\ pc = "project"
    /\ \/ /\ SrcCols \subseteq df.cols
          /\ recipes_df' = Rename(Select(df, SrcCols), relevant_cols)
          /\ pc' = "fillna"
          /\ UNCHANGED exc
       \/ /\ ~(SrcCols \subseteq df.cols)
          /\ Raise("KeyError", 24)
          /\ UNCHANGED recipes_df
    /\ UNCHANGED <<source, dest, dest0, df, recipes_list, f,
                   stdout, exit, run, prevOk>>

(* line 27: recipes_df = recipes_df.fillna(0) *)
FillNaStep ==
    /\ pc = "fillna"
    /\ \/ /\ recipes_df' = FillNa(recipes_df, Num(0))
          /\ pc' = "round"
          /\ UNCHANGED exc
       \/ /\ Raise("MemoryError", 27)
          /\ UNCHANGED recipes_df
    /\ UNCHANGED <<source, dest, dest0, df, recipes_list, f,
                   stdout, exit, run, prevOk>>

(* line 31: recipes_df[num_cols] = recipes_df[num_cols].round(1) *)
RoundStep ==
    /\ pc = "round"
    /\ \/ /\ recipes_df' = RoundCols(recipes_df, num_cols)
          /\ pc' = "to_dict"
          /\ UNCHANGED exc
       \/ /\ Raise("MemoryError", 31)
          /\ UNCHANGED recipes_df
    /\ UNCHANGED <<source, dest, dest0, df, recipes_list, f,
                   stdout, exit, run, prevOk>>

(* line 34: recipes_list = recipes_df.to_dict(orient='records') *)
ToDict ==
    /\ pc = "to_dict"
    /\ \/ /\ recipes_list' = ToDictRecords(recipes_df)
          /\ pc' = "open"
          /\ UNCHANGED exc
       \/ /\ Raise("MemoryError", 34)
          /\ UNCHANGED recipes_list
    /\ UNCHANGED <<source, dest, dest0, df, recipes_df, f,
                   stdout, exit, run, prevOk>>

\* open(path, 'w') on an openable path: the file exists and is empty
OpenAppend(d) == [d EXCEPT !.exists = TRUE]
OpenW(d) == [d EXCEPT !.exists = TRUE, !.recs = <<>>, !.closed = FALSE]

(* line 36: with open(output_path, 'w') as f *)
Open ==
    /\ pc = "open"
    /\ \/ /\ dest.dir /\ (dest.exists => dest.writable)
          /\ dest' = OpenW(dest)
          /\ f' = [open |-> TRUE, items |-> 0]
          /\ pc' = "dump"
          /\ UNCHANGED exc
       \/ /\ ~dest.dir
          /\ Raise("FileNotFoundError", 36)
          /\ UNCHANGED <<dest, f>>
       \/ /\ dest.dir /\ dest.exists /\ ~dest.writable
          /\ Raise("PermissionError", 36)
          /\ UNCHANGED <<dest, f>>
    /\ UNCHANGED <<source, dest0, df, recipes_df, recipes_list,
                   stdout, exit, run, prevOk>>

(* line 37: json.dump(recipes_list, f, indent=2), one list item at a time; *)
(* an exception leaves the with block, which closes f.  dest.recs counts   *)
(* the items written whole: the fragment of an item that fails to encode   *)
(* is not kept, the array is left unclosed either way                      *)
DumpRecord ==
    /\ pc = "dump"
    /\ f.open
    /\ f.items < Len(recipes_list)
    /\ LET rec == recipes_list[f.items + 1] IN
       \/ /\ RecSerializable(rec)
          /\ dest' = [dest EXCEPT !.recs = Append(@, JsonObject(rec))]
          /\ f' = [f EXCEPT !.items = @ + 1]
          /\ UNCHANGED <<pc, exc>>
       \/ /\ ~RecSerializable(rec)
          /\ Raise("TypeError", 37)
          /\ f' = [f EXCEPT !.open = FALSE]
          /\ UNCHANGED dest
       \/ /\ Raise("OSError", 37)
          /\ f' = [f EXCEPT !.open = FALSE]
          /\ UNCHANGED dest
    /\ UNCHANGED <<source, dest0, df, recipes_df, recipes_list,
                   stdout, exit, run, prevOk>>

(* line 37, the closing bracket, and the end of the with block *)
DumpEnd ==
    /\ pc = "dump"
    /\ f.open
    /\ f.items = Len(recipes_list)
    /\ \/ /\ dest' = [dest EXCEPT !.closed = TRUE]
          /\ f' = [f EXCEPT !.open = FALSE]
          /\ pc' = "print"
          /\ UNCHANGED exc
       \/ /\ Raise("OSError", 37)
          /\ f' = [f EXCEPT !.open = FALSE]
          /\ UNCHANGED dest
    /\ UNCHANGED <<source, dest0, df, recipes_df, recipes_list,
                   stdout, exit, run, prevOk>>

(* line 39: print(f"Successfully generated {len(recipes_list)} recipes ...") *)
PrintSuccess ==
    /\ pc = "print"
    /\ stdout' = Append(stdout, SuccessLine(Len(recipes_list)))
    /\ pc' = "done"
    /\ exit' = "0"
    /\ UNCHANGED <<source, dest, dest0, df, recipes_df, recipes_list, f, exc,
                   run, prevOk>>

(* lines 41-42: except Exception as e: print(f"An error occurred: {e}") *)
ExceptSilent ==
    /\ pc = "except"
    /\ pc' = "done"
    /\ exit' = "0"
    /\ UNCHANGED <<source, dest, dest0, df, recipes_df, recipes_list, f, exc,
                   stdout, run, prevOk>>
Except ==
    /\ pc = "except"
    /\ stdout' = IF Catches(exc.cls) THEN Append(stdout, ErrorLine(exc.cls))
                 ELSE stdout
    /\ exit' = IF Catches(exc.cls) THEN "0" ELSE "traceback"
    /\ pc' = "done"
    /\ UNCHANGED <<source, dest, dest0, df, recipes_df, recipes_list, f, exc,
                   run, prevOk>>

(* lines 44-45: the script is invoked again on the same workbook *)
Rerun ==
    /\ pc = "done"
    /\ run < MaxRuns
    /\ run' = run + 1
    /\ prevOk' = (stdout = <<SuccessLine(Len(recipes_list))>>)
    /\ dest0' = dest
    /\ pc' = "load"
    /\ df' = EmptyFrame
    /\ recipes_df' = EmptyFrame
    /\ recipes_list' = <<>>
    /\ f' = NoFile
    /\ exc' = NoException
    /\ stdout' = <<>>
    /\ exit' = "running"
    /\ UNCHANGED <<source, dest>>

Next ==
    \/ LoadOk
    \/ LoadFail
    \/ Project
    \/ FillNaStep
    \/ RoundStep
    \/ ToDict
    \/ Open
    \/ DumpRecord
    \/ DumpEnd
    \/ PrintSuccess
    \/ Except
    \/ Rerun

Spec == Init /\ [][Next]_vars

(* ============================ properties ============================== *)
NumSrc == {c \in SrcCols : relevant_cols[c] \in num_cols}

\* the run printed the success line and ended
Success == pc = "done" /\ stdout # <<>> /\ stdout[1].kind = "success"
\* the run ended with a printed error
Failed == pc = "done" /\ stdout # <<>> /\ stdout[1].kind = "error"
\* line 34 has been executed: recipes_list holds the Output Records
ListReady ==
    \/ pc \in {"open", "dump", "print"}
    \/ pc \in {"except", "done"} /\ (exc.cls = "none" \/ exc.line >= 36)
\* the transformation steps of lines 10-34 have all been applied
Transformed ==
    /\ source.file = "ok" /\ source.sheet /\ SrcCols \subseteq source.cols
    /\ Len(recipes_list) = Len(source.rows)
    /\ \A i \in 1..Len(recipes_list) :
          /\ DOMAIN recipes_list[i] = OutCols
          /\ \A o \in OutCols : recipes_list[i][o] # Null
          /\ \A o \in num_cols : recipes_list[i][o].k = "num" =>
                                    recipes_list[i][o].v % Tenth = 0
\* the current run has opened the destination for writing
Written ==
    \/ f.open
    \/ pc = "print"
    \/ pc \in {"except", "done"} /\ (exc.cls = "none" \/ exc.line = 37)
Dist(a, b) == IF a >= b THEN a - b ELSE b - a

\* C1: every run ends either with the complete array in the destination or
\* with a reported failure and the destination as it was before the run
C1_CompleteOrUntouched ==
    pc = "done" =>
       \/ /\ Success
          /\ dest.exists /\ dest.closed
          /\ Len(dest.recs) = Len(source.rows)
       \/ /\ Failed
          /\ dest = dest0

\* C2: every error of the pipeline is caught and printed; the run ends
\* normally (exit status 0), with no traceback
C2_AllErrorsCaught ==
    /\ exit # "traceback"
    /\ pc = "done" =>
          /\ exit = "0"
          /\ exc.cls # "none" => stdout = <<ErrorLine(exc.cls)>>
C2_Witness ==
    /\ pc = "done" /\ exit = "0"
    /\ exc = [cls |-> "FileNotFoundError", line |-> 36]
    /\ ~dest.dir
    /\ stdout = <<ErrorLine("FileNotFoundError")>>

\* C3: an error raised before the write step (lines 10-34) leaves the
\* destination as it was when the run started
C3_EarlyErrorLeavesDest ==
    (exc.cls # "none" /\ exc.line < 36) => (dest = dest0 /\ ~f.open)
C3_Witness ==
    /\ pc = "done"
    /\ exc = [cls |-> "KeyError", line |-> 24]
    /\ dest = StaleFile

\* C4: every Output Record has the eight keys, a number under each of the
\* seven nutrient keys and text under name, also when food_name is null
C4_RecordShape ==
    ListReady =>
       \A i \in 1..Len(recipes_list) :
          source.rows[i]["food_name"].k \in {"text", "null"} =>
             /\ DOMAIN recipes_list[i] = OutCols
             /\ \A o \in num_cols : recipes_list[i][o].k = "num"
             /\ recipes_list[i]["name"].k = "text"

\* C5: a numeric source field that is null gives the Output Record field 0,
\* in memory and in the written JSON
C5_NullBecomesZero ==
    ListReady =>
       \A i \in 1..Len(source.rows) : \A c \in NumSrc :
          source.rows[i][c] = Null =>
             /\ i <= Len(recipes_list)
             /\ recipes_list[i][relevant_cols[c]] = Num(0)
             /\ (Written /\ i <= Len(dest.recs)) =>
                   dest.recs[i][relevant_cols[c]] =
                      [j |-> "number", v |-> 0, s |-> ""]
C5_Witness ==
    /\ Success
    /\ \E i \in 1..Len(source.rows) : \E c \in NumSrc :
          /\ source.rows[i][c] = Null
          /\ recipes_list[i][relevant_cols[c]] = Num(0)
          /\ dest.recs[i][relevant_cols[c]].j = "number"

\* C6: a numeric source field that is present gives the source value rounded
\* to the nearest tenth, a tie going to the even tenth
C6_RoundedToOneDecimal ==
    ListReady =>
       \A i \in 1..Len(source.rows) : \A c \in NumSrc :
          source.rows[i][c].k = "num" =>
             LET x == source.rows[i][c].v
                 y == recipes_list[i][relevant_cols[c]].v
             IN  /\ recipes_list[i][relevant_cols[c]].k = "num"
                 /\ y % Tenth = 0
                 /\ 2 * Dist(x, y) <= Tenth
                 /\ 2 * Dist(x, y) = Tenth => (y \div Tenth) % 2 = 0
C6_Witness ==
    /\ Success
    /\ \E i \in 1..Len(source.rows) : \E c, d \in NumSrc :
          /\ source.rows[i][c] = Num(2 * Eighth)
          /\ recipes_list[i][relevant_cols[c]] = Num(2 * Tenth)
          /\ source.rows[i][d] = Num(6 * Eighth)
          /\ recipes_list[i][relevant_cols[d]] = Num(8 * Tenth)

\* C7: on success the array has one Output Record per source row, the i-th
\* record coming from the i-th row
C7_PositionByPosition ==
    Success =>
       /\ Len(recipes_list) = Len(source.rows)
       /\ Len(dest.recs) = Len(source.rows)
       /\ \A i \in 1..Len(source.rows) :
             /\ source.rows[i]["food_name"].k = "text" =>
                   /\ dest.recs[i]["name"].j = "string"
                   /\ dest.recs[i]["name"].s = source.rows[i]["food_name"].s
             /\ \A c \in NumSrc :
                   /\ dest.recs[i][relevant_cols[c]].j = "number"
                   /\ source.rows[i][c].k = "num" =>
                         2 * Dist(dest.recs[i][relevant_cols[c]].v,
                                  source.rows[i][c].v) <= Tenth
C7_Witness ==
    /\ Success
    /\ Len(source.rows) = 2
    /\ source.rows[1] # source.rows[2]
    /\ dest.recs[1]["name"].s = "Rice"
    /\ dest.recs[2]["name"].s = "Dal"

\* C8: a run prints exactly one line, the success line or an error line;
\* the success line comes after the whole array is written and carries the
\* number of records of the written array
C8_OneLine ==
    /\ Len(stdout) <= 1
    /\ pc = "done" => Len(stdout) = 1
    /\ \A l \in 1..Len(stdout) :
          stdout[l].kind = "success" =>
             /\ exc.cls = "none"
             /\ ~f.open
             /\ f.items = stdout[l].n
             /\ dest.closed
             /\ stdout[l].n = Len(dest.recs)
             /\ stdout[l].n = Len(source.rows)
C8_Witness ==
    /\ pc = "done"
    /\ stdout = <<SuccessLine(2)>>
    /\ Len(dest.recs) = 2

\* C9: after a successful run the destination holds only what the run wrote:
\* nothing of the previous content is left, and a second successful run on
\* the same source leaves the content of the first
C9_Overwrite ==
    Success =>
       /\ dest.closed
       /\ Len(dest.recs) = Len(source.rows)
       /\ \A i \in 1..Len(dest.recs) : dest.recs[i] # StaleObject
       /\ prevOk => dest = dest0
C9_Witness ==
    /\ Success
    /\ run = 2
    /\ prevOk
    /\ Len(dest.recs) >= 1
    /\ dest = dest0

\* C10: the destination is opened, and changed, only by the statement of
\* line 36-37, reached with no exception and with the transformed list
C10_OpenAfterTransform ==
    [][((f'.open /\ ~f.open) \/ dest' # dest) =>
          /\ pc \in {"open", "dump"}
          /\ exc.cls = "none"
          /\ Transformed]_vars
C10_Witness ==
    /\ pc = "dump"
    /\ f.open
    /\ dest # dest0
    /\ Len(recipes_list) >= 1

====
